---------------------------- MODULE Spec2Model ----------------------------
(* A model of challenge-su: src/su/jni/su.cc (the program) and              *)
(* src/su/jni/hexadecimal.cc (the hexadecimal codec).                       *)
(*                                                                          *)
(* Conventions.  A C buffer of n elements is a sequence of length n; the C  *)
(* index k is the sequence index k + 1.  A byte is a number in 0..255; a    *)
(* buffer element that was never written is Indet.  A pointer into a buffer *)
(* is the C index it points at.  A time_t value is its eight base-256       *)
(* digits, least significant first (TLC's integers are 32 bits wide).       *)
EXTENDS Integers, Sequences, FiniteSets, TLC

VARIABLES
    pc,             \* position of the process in main() / authenticate()
    abi,            \* the build: byte order and signedness of char
    argc,           \* main's argc
    euid,           \* what geteuid() returns
    uid,            \* what getuid() returns
    exit_status,    \* static int exit_status
    exit_code,      \* the status the process exited with; Running before
    stdout,         \* bytes written to STDOUT_FILENO
    stderr,         \* pieces written to STDERR_FILENO
    syscalls,       \* the system/library calls made so far, in order
    fds,            \* the descriptors open()ed and not yet close()d
    challenge,      \* uint32_t challenge[ 8 ], as 32 bytes
    challenge_hex,  \* char challenge_hex[ 65 ]
    response_hex,   \* char response_hex[ 256 ]
    n_read,         \* authenticate's n_read (the response read)
    response,       \* uint8_t response[ 64 ]
    public_key,     \* ed25519_public_key public_key (32 bytes)
    verified,       \* the calls of ed25519_sign_open: arguments and result
    time_ret,       \* what time( NULL ) returned; empty before the call
    random_ret,     \* the bytes the read of the random source delivered
    touched,        \* the C indices at which each buffer was read or written
    c_pc,           \* codec harness: position
    c_from,         \* codec harness: what Init drew, "bytes" or "text"
    c_in,           \* codec harness: the bytes given to hexpcpy_lower
    c_hex,          \* codec harness: the text buffer
    c_hex_end,      \* codec harness: the pointer hexpcpy_lower returned
    c_out,          \* codec harness: the buffer unhexpcpy wrote
    c_out_end       \* codec harness: the pointer unhexpcpy returned

vars == << pc, abi, argc, euid, uid, exit_status, exit_code, stdout, stderr,
           syscalls, fds, challenge, challenge_hex, response_hex, n_read,
           response, public_key, verified, time_ret, random_ret, touched,
           c_pc, c_from, c_in, c_hex, c_hex_end, c_out, c_out_end >>

progvars == << pc, abi, argc, euid, uid, exit_status, exit_code, stdout,
               stderr, syscalls, fds, challenge, challenge_hex, response_hex,
               n_read, response, public_key, verified, time_ret,
               random_ret, touched >>

codecvars == << c_pc, c_from, c_in, c_hex, c_hex_end, c_out, c_out_end >>

---------------------------------------------------------------------------
(* Bounds of the model.                                                     *)

\* number of distinct wall-clock values time() may return
MaxTimes == 2
\* number of distinct 28-byte blocks the random source may deliver
MaxRandom == 2
\* number of positions of the response at which one character is altered
MaxAlter == 2
\* longest byte sequence the codec harness encodes
MaxLen == 2
\* most character pairs the codec harness decodes
MaxPairs == 1

---------------------------------------------------------------------------
(* Values.                                                                  *)

Byte == 0 .. 255

\* an element of a buffer that was never written
Indet == 0 - 256

\* exit_code while the process runs
Running == 0 - 1

Fresh(n) == [i \in 1 .. n |-> Indet]

LF == 10

\* the builds: ARM (little-endian, char unsigned), and a big-endian build
\* with signed char
ABIs == { [big_endian |-> FALSE, char_signed |-> FALSE],
          [big_endian |-> TRUE,  char_signed |-> TRUE ] }

\* the value of a byte of a char buffer, read as a char of the build
AsChar(b) == IF abi.char_signed /\ b > 127 THEN b - 256 ELSE b

S_Standby   == << 83, 116, 97, 110, 100, 98, 121, 46, 46, 46 >>
S_Newline   == << 10 >>
S_Challenge == << 67, 104, 97, 108, 108, 101, 110, 103, 101, 58, 32 >>
S_Granted   == << 65, 67, 67, 69, 83, 83, 32, 71, 82, 65, 78, 84, 69, 68, 10 >>
S_Denied    == << 65, 67, 67, 69, 83, 83, 32, 68, 69, 78, 73, 69, 68, 10 >>

PUBLIC_KEY_PATH == "/etc/su/public_key"
RANDOM_PATH     == "/dev/urandom"
SHELL_PATH      == "/system/bin/sh"

n_random_bytes == 28

challenge_size == 4 + n_random_bytes

challenge_hex_size == challenge_size * 2 + 1

response_hex_size == 256

response_size == 64

public_key_size == 32

---------------------------------------------------------------------------
(* hexadecimal.cc                                                           *)

bad == 0

\* (hex-digit & 0x1f) -> numeric nibble
decoded_hex_table ==
    << bad, 10,  11,  12,  13,  14,  15,  bad,
       bad, bad, bad, bad, bad, bad, bad, bad,
       0,   1,   2,   3,   4,   5,   6,   7,
       8,   9,   bad, bad, bad, bad, bad, bad >>

\* (nibble & 0x0f) -> ASCII hex digit
encoded_hex_table ==
    << 48, 49, 50, 51, 52, 53, 54, 55,
       56, 57, 97, 98, 99, 100, 101, 102 >>

\* the bitwise or of two bytes, bit by bit
BitOr(a, b) ==
    LET or(w) == IF (a \div w) % 2 = 1 \/ (b \div w) % 2 = 1 THEN w ELSE 0
    IN  or(1) + or(2) + or(4) + or(8) + or(16) + or(32) + or(64) + or(128)

\* c & 0x1f, c a char (two's complement when negative)
decoded_hex_index(c) == c % 32

\* mutant: a decoder by arithmetic on the character, without the table
decoded_hex_digit_arith(c) ==
    IF c >= 97 THEN c - 87 ELSE IF c >= 65 THEN c - 55 ELSE (c - 48) % 16

\* mutant: a decoder that knows the lowercase letters only
decoded_hex_digit_lower_only(c) ==
    IF c \in 65 .. 70 THEN bad ELSE decoded_hex_table[decoded_hex_index(c) + 1]

decoded_hex_digit(c) == decoded_hex_table[decoded_hex_index(c) + 1]

\* mutant: uppercase digits
encoded_hex_char_upper(d) ==
    IF d % 16 < 10 THEN 48 + (d % 16) ELSE 55 + (d % 16)

encoded_hex_char(d) == encoded_hex_table[(d % 16) + 1]

\* the elements of a sequence
Range(q) == { q[i] : i \in 1 .. Len(q) }

\* one turn of the loop of hexpcpy_lower; s holds the buffer and the pointers
\* out and p (C indices into buf and in); rd and wr list the indices at
\* which in was read and out was written
hexpcpy_turn(s, in) ==
    LET c == in[s.p + 1]
    IN  [buf |-> [s.buf EXCEPT ![s.out + 1] = encoded_hex_char(c \div 16),
                               ![s.out + 2] = encoded_hex_char(c)],
         out |-> s.out + 2,
         p   |-> s.p + 1,
         rd  |-> Append(s.rd, s.p),
         wr  |-> Append(Append(s.wr, s.out), s.out + 1)]

\* k turns of the loop, one after the other: the first half of them, then
\* the rest from the state h they leave (h ranges over a set of one element,
\* which has TLC compute that state once, before it goes on)
RECURSIVE hexpcpy_turns(_, _, _)
hexpcpy_turns(s, in, k) ==
    IF k = 0 THEN s
    ELSE IF k = 1 THEN CHOOSE r \in { hexpcpy_turn(h, in) : h \in { s } } : TRUE
    ELSE CHOOSE r \in { hexpcpy_turns(h, in, k - (k \div 2)) :
                           h \in { hexpcpy_turns(s, in, k \div 2) } } : TRUE

\* char* hexpcpy_lower( char* out, const void* in, unsigned n ): the buffer
\* after the call and the pointer returned
hexpcpy_lower(buf, out, in, n) ==
    CHOOSE r \in
        { [buf |-> s.buf, ret |-> s.out, rd |-> Range(s.rd),
           wr |-> Range(s.wr)] :
            s \in { hexpcpy_turns([buf |-> buf, out |-> out, p |-> 0,
                                   rd |-> << >>, wr |-> << >>], in, n) } } :
        TRUE

\* mutant: the high nibble is not shifted
unhex_byte_unshifted(c1, c2) ==
    BitOr(decoded_hex_digit(AsChar(c1)), decoded_hex_digit(AsChar(c2)))

\* one byte of unhexpcpy from the two characters c1 c2
unhex_byte(c1, c2) ==
    LET h == (decoded_hex_digit(AsChar(c1)) * 16) % 256
        l == decoded_hex_digit(AsChar(c2))
    IN  BitOr(h, l)

\* mutant: the input pointer advances by one character a turn
unhexpcpy_turn_by_one(s, in) ==
    [buf |-> [s.buf EXCEPT ![s.out + 1] = unhex_byte(in[s.p + 1], in[s.p + 2])],
     out |-> s.out + 1,
     p   |-> s.p + 1,
     rd  |-> Append(Append(s.rd, s.p), s.p + 1),
     wr  |-> Append(s.wr, s.out),
     tab |-> Append(Append(s.tab, decoded_hex_index(AsChar(in[s.p + 1]))),
                    decoded_hex_index(AsChar(in[s.p + 2])))]

\* one turn of the loop of unhexpcpy; rd, wr and tab list the indices at
\* which in was read, out was written and decoded_hex_table was read
unhexpcpy_turn(s, in) ==
    [buf |-> [s.buf EXCEPT ![s.out + 1] = unhex_byte(in[s.p + 1], in[s.p + 2])],
     out |-> s.out + 1,
     p   |-> s.p + 2,
     rd  |-> Append(Append(s.rd, s.p), s.p + 1),
     wr  |-> Append(s.wr, s.out),
     tab |-> Append(Append(s.tab, decoded_hex_index(AsChar(in[s.p + 1]))),
                    decoded_hex_index(AsChar(in[s.p + 2])))]

\* k turns of the loop, one after the other: the first half of them, then
\* the rest from the state h they leave (h ranges over a set of one element,
\* which has TLC compute that state once, before it goes on)
RECURSIVE unhexpcpy_turns(_, _, _)
unhexpcpy_turns(s, in, k) ==
    IF k = 0 THEN s
    ELSE IF k = 1 THEN CHOOSE r \in { unhexpcpy_turn(h, in) : h \in { s } } : TRUE
    ELSE CHOOSE r \in { unhexpcpy_turns(h, in, k - (k \div 2)) :
                           h \in { unhexpcpy_turns(s, in, k \div 2) } } : TRUE

\* byte* unhexpcpy( byte* out, const char* in, unsigned n )
unhexpcpy(buf, out, in, n) ==
    CHOOSE r \in
        { [buf |-> s.buf, ret |-> s.out, rd |-> Range(s.rd),
           wr |-> Range(s.wr), tab |-> Range(s.tab)] :
            s \in { unhexpcpy_turns([buf |-> buf, out |-> out, p |-> 0,
                                     rd |-> << >>, wr |-> << >>,
                                     tab |-> << >>], in, n) } } :
        TRUE

---------------------------------------------------------------------------
(* ed25519-donna, used through ed25519.h: the signature primitive.  A key   *)
(* pair is named by its public key; Sign is what the holder of the secret   *)
(* key computes, and ed25519_sign_open accepts that signature alone.        *)

\* a digest of the bytes lo..hi of m
RECURSIVE Digest(_, _, _)
Digest(m, lo, hi) ==
    IF lo > hi THEN 7
    ELSE IF lo = hi THEN (m[lo] * 3 + lo) % 251
    ELSE LET mid == (lo + hi) \div 2
         IN  (Digest(m, lo, mid) * 31 + Digest(m, mid + 1, hi)) % 251

Sign(m, pk) ==
    CHOOSE sig \in
        { [i \in 1 .. response_size |->
              (d + 3 * pk[((i - 1) % public_key_size) + 1] + 7 * i) % 256] :
            d \in { Digest(v, 1, Len(v)) : v \in { m } } } : TRUE

\* int ed25519_sign_open( m, mlen, pk, RS ): 0 when RS is a valid signature
\* of the first mlen bytes of m under pk
ed25519_sign_open(m, mlen, pk, RS) ==
    IF RS = Sign(SubSeq(m, 1, mlen), pk) THEN 0 ELSE 0 - 1

---------------------------------------------------------------------------
(* The environment: what the system calls may deliver.                      *)

Key(k) == [i \in 1 .. public_key_size |-> (k * 53 + i * 5) % 256]

\* the contents the public key file may have
Keys == { Key(1), Key(2) }

\* the values time() may return, as base-256 digits
Time(k) == [i \in 1 .. 8 |-> (k * 41 + i * 59) % 256]

Times == { Time(k) : k \in 1 .. MaxTimes }

\* the blocks the random source may deliver
Random(k) == [i \in 1 .. n_random_bytes |-> (k * 37 + i * 11) % 256]

Randoms == { Random(k) : k \in 1 .. MaxRandom }

\* the byte counts a read() of a file asked for size bytes may return
ReadCounts(size) == { 0, 1, size - 1, size }

Errnos == { "EACCES", "EIO" }

ExecErrnos == { "ENOENT", "EACCES", "ENOEXEC" }

Uids == { 0, 2000 }

\* the peer's hexadecimal digits
PeerDigit(d, upper) ==
    IF d < 10 THEN 48 + d ELSE IF upper THEN 55 + d ELSE 87 + d

\* the peer's hexadecimal text of a byte sequence
PeerHex(b, upper) ==
    [i \in 1 .. 2 * Len(b) |->
        IF i % 2 = 1 THEN PeerDigit(b[(i + 1) \div 2] \div 16, upper)
                     ELSE PeerDigit(b[i \div 2] % 16, upper)]

\* the response line of a peer that signs the message m with key pk
Framed(m, pk, upper) == PeerHex(Sign(m, pk), upper) \o << LF >>

Altered(s, i, c) == [s EXCEPT ![i] = c]

Resize(s, n, fill) == [i \in 1 .. n |-> IF i <= Len(s) THEN s[i] ELSE fill]

\* the positions (sequence indices) at which a character is altered
AlterPos(j) == 1 + (((j - 1) * 67) % (2 * response_size))

\* what the peer may have sent, after the message m was printed, by the
\* time the read() of stdin returns
StdinReads(m) ==
    LET base == Framed(m, Key(1), FALSE)
    IN  { Framed(m, k, u) : k \in Keys, u \in BOOLEAN }
        \cup { Altered(base, AlterPos(j), c) : j \in 1 .. MaxAlter, c \in Byte }
        \cup { Altered(base, 2 * response_size + 1, c) :
                   c \in { 0, 13, 32, 97 } }
        \cup { Resize(base, n, f) :
                   n \in 0 .. response_hex_size + 1, f \in { LF, 97 } }

---------------------------------------------------------------------------
(* su.cc                                                                    *)

\* write( STDOUT_FILENO, s, len )
write_stdout(s) == stdout' = stdout \o s

\* exit( status )
exit(status) ==
    /\ exit_code' = status
    /\ pc' = "exited"

\* error( msg, len ): msg, strerror( errno ) and a newline on stderr, then
\* exit( exit_status ); errno is e
error(msg, e) ==
    /\ stderr' = stderr \o << msg, e, "\n" >>
    /\ exit(exit_status')

\* fail( msg, len )
fail(msg) ==
    /\ stderr' = stderr \o << msg >>
    /\ exit(exit_status')

call(name) == syscalls' = Append(syscalls, name)

\* mutant: the upper half of a 64-bit time_t is stored
store_uint32_upper_half(t) ==
    LET u == SubSeq(t, 5, 8)
    IN  IF abi.big_endian THEN << u[4], u[3], u[2], u[1] >> ELSE u

\* (uint32_t) t stored through a uint32_t*: four bytes in native order
store_uint32(t) ==
    LET u == SubSeq(t, 1, 4)
    IN  IF abi.big_endian THEN << u[4], u[3], u[2], u[1] >> ELSE u

\* n bytes of data stored at C index off of buf
store(buf, off, data, n) ==
    [i \in 1 .. Len(buf) |->
        IF i > off /\ i <= off + n THEN data[i - off] ELSE buf[i]]

\* the bytes a read() asked for count bytes stores, of avail bytes at hand
read_count(avail, count) == IF avail < count THEN avail ELSE count

\* the indices of response_hex the framing test reads: response_hex[ 128 ]
\* is read only if n_read == 129
frame_reads(n) == IF n = 129 THEN { 128 } ELSE {}

\* mutant: the count is not compared
well_framed_terminator_only(n, hex) == AsChar(hex[128 + 1]) = LF

\* n_read == 129  &&  response_hex[ 128 ] == '\n'
well_framed(n, hex) == n = 129 /\ AsChar(hex[128 + 1]) = LF

\* mutant: nok returned as it is
valid_inverted(nok) == nok # 0

\* return ! nok
valid_of(nok) == nok = 0

\* mutant: the comparison negated
exec_failure_status_swapped(e) == (IF e # "ENOENT" THEN 1 ELSE 0) + 126

\* exit_status = (errno == ENOENT) + 126
exec_failure_status(e) == (IF e = "ENOENT" THEN 1 ELSE 0) + 126

\* mutant: one argument is let through
args_present_off_by_one(n) == n > 2

\* argc > 1
args_present(n) == n > 1

\* mutant: a short block from the random source is taken
random_short_never(n) == FALSE

\* make_challenge: n_read != n_random_bytes
random_short(n) == n # n_random_bytes

\* mutant: the result of the read is not tested
read_failed_never(n) == FALSE

\* authenticate: n_read < 0
read_failed(n) == n < 0

\* mutant: a short key is taken
key_short_never(n) == FALSE

\* response_answers_challenge: n_read != sizeof public_key
key_short(n) == n # public_key_size

\* mutant: the effective uid is tested in place of the real uid
needs_authentication_by_euid(current_uid) == euid # 0

\* main: current_uid != 0
needs_authentication(current_uid) == current_uid # 0

inputs == << abi, argc, euid, uid >>

returned == << time_ret, random_ret >>

locals == << challenge, challenge_hex, response_hex, n_read, response,
             public_key, verified, touched >>

\* no buffer of authenticate was accessed yet
Untouched ==
    [challenge_r |-> {}, hex_w |-> {}, lf_w |-> {}, read_w |-> {},
     frame_r |-> {}, unhex_r |-> {}, table_r |-> {}, response_w |-> {}]

ProgInit ==
    /\ pc = "main"
    /\ abi \in ABIs
    /\ argc \in 1 .. 3
    /\ euid \in Uids
    /\ uid \in Uids
    /\ exit_status = 125
    /\ exit_code = Running
    /\ stdout = << >>
    /\ stderr = << >>
    /\ syscalls = << >>
    /\ fds = {}
    /\ challenge = Fresh(challenge_size)
    /\ challenge_hex = Fresh(challenge_hex_size)
    /\ response_hex = Fresh(response_hex_size)
    /\ n_read = Indet
    /\ response = Fresh(response_size)
    /\ public_key = Fresh(public_key_size)
    /\ verified = << >>
    /\ time_ret = << >>
    /\ random_ret = << >>
    /\ touched = Untouched

\* main: if ( argc > 1 ) FAIL( "no arguments are allowed" )
CheckArgs ==
    /\ pc = "main"
    /\ UNCHANGED exit_status
    /\ IF args_present(argc)
       THEN fail("su: no arguments are allowed\n")
       ELSE pc' = "geteuid" /\ UNCHANGED << exit_code, stderr >>
    /\ UNCHANGED << codecvars, inputs, returned, stdout, syscalls, fds, locals >>

\* main: if ( geteuid() != 0 ) FAIL( "not running as root (is it setuid?)" )
CheckEuid ==
    /\ pc = "geteuid"
    /\ call("geteuid")
    /\ UNCHANGED exit_status
    /\ IF euid # 0
       THEN fail("su: not running as root (is it setuid?)\n")
       ELSE pc' = "getuid" /\ UNCHANGED << exit_code, stderr >>
    /\ UNCHANGED << codecvars, inputs, returned, stdout, fds, locals >>

\* main: current_uid = getuid(); if ( current_uid != 0 ) authenticate()
CheckUid ==
    /\ pc = "getuid"
    /\ call("getuid")
    /\ pc' = IF needs_authentication(uid) THEN "standby" ELSE "setgid"
    /\ UNCHANGED << codecvars, inputs, returned, exit_status, exit_code, stdout,
                    stderr, fds,
                    locals >>

\* authenticate: "Standby...", sleep( 1 ), "\n"
Standby ==
    /\ pc = "standby"
    /\ write_stdout(S_Standby \o S_Newline)
    /\ call("sleep")
    /\ pc' = "time"
    /\ UNCHANGED << codecvars, inputs, returned, exit_status, exit_code,
                    stderr, fds, locals >>

\* make_challenge: t = (uint32_t) time( NULL ); *p++ = t
MakeChallengeTime ==
    /\ pc = "time"
    /\ call("time")
    /\ \E t \in Times :
         /\ time_ret' = t
         /\ challenge' = store(challenge, 0, store_uint32(t), 4)
    /\ pc' = "open_random"
    /\ UNCHANGED << codecvars, inputs, random_ret, exit_status, exit_code, stdout,
                    stderr, fds,
                    challenge_hex, response_hex, n_read, response,
                    public_key, verified, touched >>

\* make_challenge: fd = open( RANDOM_PATH, O_RDONLY )
OpenRandom ==
    /\ pc = "open_random"
    /\ call("open " \o RANDOM_PATH)
    /\ UNCHANGED exit_status
    /\ \/ /\ fds' = fds \cup { RANDOM_PATH }
          /\ pc' = "read_random"
          /\ UNCHANGED << exit_code, stderr >>
       \/ /\ \E e \in Errnos : error("su: " \o RANDOM_PATH \o ": ", e)
          /\ UNCHANGED fds
    /\ UNCHANGED << codecvars, inputs, returned, stdout, locals >>

\* make_challenge: n_read = read( fd, p, n_random_bytes ) and its checks
ReadRandom ==
    /\ pc = "read_random"
    /\ call("read " \o RANDOM_PATH)
    /\ UNCHANGED exit_status
    /\ \/ /\ \E e \in Errnos : error("su: " \o RANDOM_PATH \o ": ", e)
          /\ UNCHANGED << challenge, random_ret >>
       \/ \E r \in Randoms, n \in ReadCounts(n_random_bytes) :
            /\ random_ret' = SubSeq(r, 1, n)
            /\ challenge' = store(challenge, 4, r, n)
            /\ IF random_short(n)
               THEN fail("su: insufficient data from " \o RANDOM_PATH \o "\n")
               ELSE pc' = "close_random" /\ UNCHANGED << exit_code, stderr >>
    /\ UNCHANGED << codecvars, inputs, time_ret, stdout, fds, challenge_hex,
                    response_hex, n_read, response, public_key, verified,
                    touched >>

\* mutant: the descriptor of the random source is left open
CloseRandom_leaks ==
    /\ pc = "close_random"
    /\ pc' = "hex"
    /\ UNCHANGED << codecvars, inputs, returned, exit_status, exit_code, stdout,
                    stderr, syscalls, fds, locals >>

\* make_challenge: close( fd )
CloseRandom ==
    /\ pc = "close_random"
    /\ call("close " \o RANDOM_PATH)
    /\ fds' = fds \ { RANDOM_PATH }
    /\ pc' = "hex"
    /\ UNCHANGED << codecvars, inputs, returned, exit_status, exit_code, stdout,
                    stderr, locals >>

\* mutant: the line feed is not stored
EncodeChallenge_no_LF ==
    /\ pc = "hex"
    /\ \E r \in { hexpcpy_lower(challenge_hex, 0, challenge, challenge_size) } :
         /\ challenge_hex' = r.buf
         /\ touched' = [touched EXCEPT !.challenge_r = r.rd, !.hex_w = r.wr]
    /\ pc' = "print"
    /\ UNCHANGED << codecvars, inputs, returned, exit_status, exit_code, stdout,
                    stderr, syscalls, fds, challenge, response_hex, n_read,
                    response, public_key, verified >>

\* authenticate: p = hexpcpy_lower( challenge_hex, &challenge, challenge_size );
\* *p = '\n'
EncodeChallenge ==
    /\ pc = "hex"
    /\ \E r \in { hexpcpy_lower(challenge_hex, 0, challenge, challenge_size) } :
         /\ challenge_hex' = [r.buf EXCEPT ![r.ret + 1] = LF]
         /\ touched' = [touched EXCEPT !.challenge_r = r.rd, !.hex_w = r.wr,
                                       !.lf_w = { r.ret }]
    /\ pc' = "print"
    /\ UNCHANGED << codecvars, inputs, returned, exit_status, exit_code, stdout,
                    stderr, syscalls, fds, challenge, response_hex, n_read,
                    response, public_key, verified >>

\* authenticate: write "Challenge: " and challenge_hex (sizeof challenge_hex)
PrintChallenge ==
    /\ pc = "print"
    /\ write_stdout(S_Challenge \o SubSeq(challenge_hex, 1, challenge_hex_size))
    /\ pc' = "read"
    /\ UNCHANGED << codecvars, inputs, returned, exit_status, exit_code,
                    stderr, syscalls, fds,
                    locals >>

\* mutant: the wait for the response is given up and the session denied
ReadResponse_times_out ==
    /\ pc = "read"
    /\ pc' = "denied"
    /\ UNCHANGED << codecvars, inputs, returned, exit_status, exit_code, stdout,
                    stderr, syscalls, fds, locals >>

\* authenticate: n_read = read( STDIN_FILENO, response_hex, 256 );
\* if ( n_read < 0 ) ERROR( "<response>" )
ReadResponse ==
    /\ pc = "read"
    /\ call("read stdin")
    /\ UNCHANGED exit_status
    /\ \/ /\ n_read' = 0 - 1
          /\ UNCHANGED << response_hex, touched >>
       \/ \E data \in StdinReads(challenge_hex) :
            /\ n_read' = read_count(Len(data), response_hex_size)
            /\ response_hex' = store(response_hex, 0, data, n_read')
            /\ touched' = [touched EXCEPT !.read_w = 0 .. (n_read' - 1)]
    /\ IF read_failed(n_read')
       THEN \E e \in Errnos : error("su: <response>: ", e)
       ELSE pc' = "frame" /\ UNCHANGED << exit_code, stderr >>
    /\ UNCHANGED << codecvars, inputs, returned, stdout, fds, challenge,
                    challenge_hex, response, public_key, verified >>

\* mutant: a response of another length is read again
CheckFrame_reads_again ==
    /\ pc = "frame"
    /\ pc' = IF well_framed(n_read, response_hex) THEN "decode"
             ELSE IF n_read # 129 THEN "read" ELSE "denied"
    /\ touched' = [touched EXCEPT !.frame_r = frame_reads(n_read)]
    /\ UNCHANGED << codecvars, inputs, returned, exit_status, exit_code, stdout,
                    stderr, syscalls, fds, challenge, challenge_hex,
                    response_hex, n_read, response, public_key, verified >>

\* authenticate: if ( n_read == 129  &&  response_hex[ 128 ] == '\n' )
CheckFrame ==
    /\ pc = "frame"
    /\ pc' = IF well_framed(n_read, response_hex) THEN "decode" ELSE "denied"
    /\ touched' = [touched EXCEPT !.frame_r = frame_reads(n_read)]
    /\ UNCHANGED << codecvars, inputs, returned, exit_status, exit_code, stdout,
                    stderr, syscalls, fds, challenge, challenge_hex,
                    response_hex, n_read, response, public_key, verified >>

\* authenticate: unhexpcpy( response, response_hex, sizeof response )
DecodeResponse ==
    /\ pc = "decode"
    /\ \E r \in { unhexpcpy(response, 0, response_hex, response_size) } :
         /\ response' = r.buf
         /\ touched' = [touched EXCEPT !.unhex_r = r.rd,
                                       !.response_w = r.wr,
                                       !.table_r = r.tab]
    /\ pc' = "open_key"
    /\ UNCHANGED << codecvars, inputs, returned, exit_status, exit_code, stdout,
                    stderr, syscalls, fds, challenge, challenge_hex,
                    response_hex, n_read, public_key, verified >>

\* response_answers_challenge: fd = open( PUBLIC_KEY_PATH, O_RDONLY )
OpenKey ==
    /\ pc = "open_key"
    /\ call("open " \o PUBLIC_KEY_PATH)
    /\ UNCHANGED exit_status
    /\ \/ /\ fds' = fds \cup { PUBLIC_KEY_PATH }
          /\ pc' = "read_key"
          /\ UNCHANGED << exit_code, stderr >>
       \/ /\ \E e \in Errnos : error("su: " \o PUBLIC_KEY_PATH \o ": ", e)
          /\ UNCHANGED fds
    /\ UNCHANGED << codecvars, inputs, returned, stdout, locals >>

\* response_answers_challenge: n_read = read( fd, public_key, 32 ) and its
\* checks
ReadKey ==
    /\ pc = "read_key"
    /\ call("read " \o PUBLIC_KEY_PATH)
    /\ UNCHANGED exit_status
    /\ \/ /\ \E e \in Errnos : error("su: " \o PUBLIC_KEY_PATH \o ": ", e)
          /\ UNCHANGED public_key
       \/ \E k \in Keys, n \in ReadCounts(public_key_size) :
            /\ public_key' = store(public_key, 0, k, n)
            /\ IF key_short(n)
               THEN fail("su: insufficient data from " \o PUBLIC_KEY_PATH
                         \o "\n")
               ELSE pc' = "close_key" /\ UNCHANGED << exit_code, stderr >>
    /\ UNCHANGED << codecvars, inputs, returned, stdout, fds, challenge, challenge_hex,
                    response_hex, n_read, response, verified, touched >>

\* response_answers_challenge: close( fd )
CloseKey ==
    /\ pc = "close_key"
    /\ call("close " \o PUBLIC_KEY_PATH)
    /\ fds' = fds \ { PUBLIC_KEY_PATH }
    /\ pc' = "verify"
    /\ UNCHANGED << codecvars, inputs, returned, exit_status, exit_code, stdout,
                    stderr, locals >>

\* response_answers_challenge: nok = ed25519_sign_open( msg, msg_len,
\* public_key, sig ); return ! nok; authenticate: if ( valid )
Verify ==
    /\ pc = "verify"
    /\ \E nok \in { ed25519_sign_open(challenge_hex, challenge_hex_size,
                                        public_key, response) } :
         /\ verified' = Append(verified,
                               [msg |-> challenge_hex,
                                msg_len |-> challenge_hex_size,
                                pk |-> public_key,
                                sig |-> response,
                                nok |-> nok])
         /\ pc' = IF valid_of(nok) THEN "granted" ELSE "denied"
    /\ UNCHANGED << codecvars, inputs, returned, exit_status, exit_code, stdout,
                    stderr, syscalls,
                    fds, challenge, challenge_hex, response_hex, n_read,
                    response, public_key, touched >>

\* authenticate: "ACCESS GRANTED\n"; return true
Granted ==
    /\ pc = "granted"
    /\ write_stdout(S_Granted)
    /\ pc' = "setgid"
    /\ UNCHANGED << codecvars, inputs, returned, exit_status, exit_code,
                    stderr, syscalls, fds,
                    locals >>

\* authenticate: "ACCESS DENIED\n"; return false
Denied ==
    /\ pc = "denied"
    /\ write_stdout(S_Denied)
    /\ pc' = "not_ok"
    /\ UNCHANGED << codecvars, inputs, returned, exit_status, exit_code,
                    stderr, syscalls, fds,
                    locals >>

\* mutant: the failed session falls through to the identity change
ExitDenied_falls_through ==
    /\ pc = "not_ok"
    /\ pc' = "setgid"
    /\ UNCHANGED << codecvars, inputs, returned, exit_status, exit_code, stdout, stderr,
                    syscalls, fds, locals >>

\* main: if ( ! ok ) exit( 1 )
ExitDenied ==
    /\ pc = "not_ok"
    /\ exit(1)
    /\ UNCHANGED << codecvars, inputs, returned, exit_status, stdout, stderr, syscalls, fds,
                    locals >>

\* mutant: the failure is reported and the process goes on
SetGid_goes_on ==
    /\ pc = "setgid"
    /\ call("setgid 0")
    /\ pc' = "setuid"
    /\ \/ UNCHANGED stderr
       \/ stderr' = stderr \o << "su: setgid: ", "EPERM", "\n" >>
    /\ UNCHANGED << codecvars, inputs, returned, exit_status, exit_code, stdout, fds,
                    locals >>

\* main: gid = 0; if ( setgid( gid ) < 0 ) ERROR( "setgid" )
SetGid ==
    /\ pc = "setgid"
    /\ call("setgid 0")
    /\ UNCHANGED exit_status
    /\ \/ pc' = "setuid" /\ UNCHANGED << exit_code, stderr >>
       \/ error("su: setgid: ", "EPERM")
    /\ UNCHANGED << codecvars, inputs, returned, stdout, fds, locals >>

\* main: uid = 0; if ( setuid( uid ) < 0 ) ERROR( "setuid" )
SetUid ==
    /\ pc = "setuid"
    /\ call("setuid 0")
    /\ UNCHANGED exit_status
    /\ \/ pc' = "exec" /\ UNCHANGED << exit_code, stderr >>
       \/ error("su: setuid: ", "EPERM")
    /\ UNCHANGED << codecvars, inputs, returned, stdout, fds, locals >>

\* main: execlp( SHELL_PATH, "sh", NULL ); on return
\* exit_status = (errno == ENOENT) + 126; ERROR( SHELL_PATH )
Exec ==
    /\ pc = "exec"
    /\ call("execlp " \o SHELL_PATH)
    /\ \/ /\ pc' = "shell"
          /\ UNCHANGED << exit_status, exit_code, stderr >>
       \/ \E e \in ExecErrnos :
            /\ exit_status' = exec_failure_status(e)
            /\ error("su: " \o SHELL_PATH \o ": ", e)
    /\ UNCHANGED << codecvars, inputs, returned, stdout, fds, locals >>

Next ==
    \/ CheckArgs \/ CheckEuid \/ CheckUid
    \/ Standby \/ MakeChallengeTime \/ OpenRandom \/ ReadRandom
    \/ CloseRandom \/ EncodeChallenge \/ PrintChallenge \/ ReadResponse
    \/ CheckFrame \/ DecodeResponse \/ OpenKey \/ ReadKey \/ CloseKey
    \/ Verify \/ Granted \/ Denied \/ ExitDenied
    \/ SetGid \/ SetUid \/ Exec

---------------------------------------------------------------------------
(* The codec harness: hexpcpy_lower and unhexpcpy applied to drawn inputs.  *)

Strides == { 1, 85 }

ByteInputs ==
    { [i \in 1 .. n |-> (b + (i - 1) * s) % 256] :
        b \in Byte, s \in Strides, n \in 0 .. MaxLen }

TextInputs ==
    { [i \in 1 .. 2 * n |->
          IF i % 2 = 1 THEN (c1 + 7 * (i \div 2)) % 256
                       ELSE (c2 + 11 * ((i - 1) \div 2)) % 256] :
        c1 \in Byte, c2 \in Byte, n \in 0 .. MaxPairs }

CodecIdle ==
    /\ c_pc = "idle"
    /\ c_from = "none"
    /\ c_in = << >>
    /\ c_hex = << >>
    /\ c_hex_end = Indet
    /\ c_out = << >>
    /\ c_out_end = Indet

CodecInit ==
    /\ c_hex_end = Indet
    /\ c_out_end = Indet
    /\ \/ /\ c_from = "bytes"
          /\ c_pc = "bytes"
          /\ c_in \in ByteInputs
          /\ c_hex = Fresh(2 * Len(c_in))
          /\ c_out = Fresh(Len(c_in))
       \/ /\ c_from = "text"
          /\ c_pc = "text"
          /\ c_in = << >>
          /\ c_hex \in TextInputs
          /\ c_out = Fresh(Len(c_hex) \div 2)

\* hexpcpy_lower( c_hex, c_in, n )
Encode ==
    /\ c_pc = "bytes"
    /\ LET r == hexpcpy_lower(c_hex, 0, c_in, Len(c_in))
       IN  c_hex' = r.buf /\ c_hex_end' = r.ret
    /\ c_pc' = "text"
    /\ UNCHANGED << c_from, c_in, c_out, c_out_end, progvars >>

\* unhexpcpy( c_out, c_hex, n )
Decode ==
    /\ c_pc = "text"
    /\ LET r == unhexpcpy(c_out, 0, c_hex, Len(c_hex) \div 2)
       IN  c_out' = r.buf /\ c_out_end' = r.ret
    /\ c_pc' = "done"
    /\ UNCHANGED << c_from, c_in, c_hex, c_hex_end, progvars >>

CodecNext ==
    \/ Encode
    \/ Decode

---------------------------------------------------------------------------
(* Specifications.                                                          *)

Init == ProgInit /\ CodecIdle

\* the program
Spec == Init /\ [][Next]_vars

CodecProgInit ==
    /\ ProgInit
    /\ argc = 1
    /\ euid = 0
    /\ uid = 0

InitCodec == CodecProgInit /\ CodecInit

\* the codec on its own
SpecCodec == InitCodec /\ [][CodecNext]_vars

\* the steps the process takes by itself: all but the return of the read of
\* stdin, which waits for the peer
ProgramStep ==
    \/ CheckArgs \/ CheckEuid \/ CheckUid
    \/ Standby \/ MakeChallengeTime \/ OpenRandom \/ ReadRandom
    \/ CloseRandom \/ EncodeChallenge \/ PrintChallenge
    \/ CheckFrame \/ DecodeResponse \/ OpenKey \/ ReadKey \/ CloseKey
    \/ Verify \/ Granted \/ Denied \/ ExitDenied
    \/ SetGid \/ SetUid \/ Exec

\* the program, running: a step the process can take by itself is taken
SpecLive == Init /\ [][Next]_vars /\ WF_vars(ProgramStep)

---------------------------------------------------------------------------
(* Vocabulary of the properties.                                            *)

EndsWith(s, t) ==
    Len(s) >= Len(t) /\ SubSeq(s, Len(s) - Len(t) + 1, Len(s)) = t

\* the session's terminal states, as the output shows them
SessionGranted == EndsWith(stdout, S_Granted)

SessionDenied == EndsWith(stdout, S_Denied)

Called(name) == \E i \in 1 .. Len(syscalls) : syscalls[i] = name

SetgidCalled == Called("setgid 0")

SetuidCalled == Called("setuid 0")

ExecCalled == Called("execlp " \o SHELL_PATH)

KeyOpened == Called("open " \o PUBLIC_KEY_PATH)

RandomOpened == Called("open " \o RANDOM_PATH)

StdinRead == Called("read stdin")

Exited == pc = "exited"

\* the 65 bytes to be signed: the Challenge in lowercase hexadecimal, and LF
ChallengeMessage == PeerHex(challenge, FALSE) \o << LF >>

\* the bytes written to stdout after the label "Challenge: "
PrintedMessage ==
    LET skip == Len(S_Standby) + Len(S_Newline) + Len(S_Challenge)
    IN  SubSeq(stdout, skip + 1, skip + 65)

IsHexChar(c) == c \in (48 .. 57) \cup (65 .. 70) \cup (97 .. 102)

\* the numeric value of a hexadecimal digit
HexValue(c) ==
    IF c \in 48 .. 57 THEN c - 48 ELSE IF c \in 65 .. 70 THEN c - 55 ELSE c - 87

\* a character with a letter's case changed
ToggleCase(c) ==
    IF c \in 65 .. 70 THEN c + 32 ELSE IF c \in 97 .. 102 THEN c - 32 ELSE c

\* the characters that share their low five bits with no hexadecimal digit
NoDigitClass(c) == (c % 32) \in ({ 0 } \cup (7 .. 15) \cup (26 .. 31))

\* the nibble a character denotes by its low five bits
NibbleOf(c) ==
    IF (c % 32) \in 1 .. 6 THEN 9 + (c % 32)
    ELSE IF (c % 32) \in 16 .. 25 THEN (c % 32) - 16 ELSE 0

\* the response read was complete and not well-framed
Malformed ==
    /\ n_read >= 0
    /\ ~ (n_read = 129 /\ response_hex[129] = LF)

\* the positions among the 128 characters where the response differs from v
Differs(v) == { i \in 1 .. 128 : response_hex[i] # v[i] }

---------------------------------------------------------------------------
(* The properties.                                                          *)

\* C1: the privilege transition (setgid, setuid, exec) is attempted only if
\* the real uid was 0 or the session ended in GRANTED; a session that ends in
\* DENIED exits with status 1 and never calls setgid, setuid or exec.
C1_TransitionOnlyIfRootOrGranted ==
    /\ (SetgidCalled \/ SetuidCalled \/ ExecCalled
            \/ pc \in { "setgid", "setuid", "exec", "shell" })
        => (uid = 0 \/ SessionGranted)
    /\ SessionDenied =>
        /\ ~ SetgidCalled /\ ~ SetuidCalled /\ ~ ExecCalled
        /\ pc \in { "not_ok", "exited" }
        /\ pc = "not_ok" => ENABLED ExitDenied
        /\ Exited => exit_code = 1

C1_Witness == uid # 0 /\ SessionDenied /\ Exited /\ exit_code = 1

\* C2: the session is GRANTED only if the read returned 129 bytes, byte 128
\* is LF and the primitive accepted the signature decoded from bytes 0..127
\* against the 65-byte ChallengeMessage that was printed; the verifier is
\* never invoked with another message.
C2_GrantedOnlyOnVerifiedMessage ==
    /\ Len(verified) <= 1
    /\ \A i \in 1 .. Len(verified) :
        /\ verified[i].msg_len = 65
        /\ SubSeq(verified[i].msg, 1, verified[i].msg_len) = ChallengeMessage
        /\ SubSeq(verified[i].msg, 1, verified[i].msg_len) = PrintedMessage
    /\ SessionGranted =>
        /\ n_read = 129
        /\ response_hex[129] = LF
        /\ Len(verified) = 1
        /\ verified[1].nok = 0
        /\ verified[1].sig =
               unhexpcpy(Fresh(64), 0, SubSeq(response_hex, 1, 128), 64).buf
        /\ verified[1].sig = Sign(ChallengeMessage, verified[1].pk)

C2_Witness == SessionGranted /\ Len(verified) = 1 /\ pc = "shell"

\* C3: a response of a length other than 129, or of 129 bytes whose byte 128
\* is not LF, ends in DENIED without decoding it, without opening the key
\* file and without invoking the primitive.
C3_MalformedIsDeniedUndecoded ==
    Malformed =>
        /\ response = Fresh(response_size)
        /\ ~ KeyOpened
        /\ public_key = Fresh(public_key_size)
        /\ verified = << >>
        /\ ~ SessionGranted
        /\ pc \in { "frame", "denied", "not_ok", "exited" }
        /\ pc = "frame" => ENABLED CheckFrame
        /\ pc = "denied" => ENABLED Denied
        /\ pc \in { "not_ok", "exited" } => SessionDenied
        /\ Exited => exit_code = 1

C3_Witness ==
    /\ Exited /\ SessionDenied
    /\ n_read = 130 /\ response_hex[129] = LF

\* the response is well-framed, the primitive was invoked with the key pk,
\* and the 128 characters are those of the valid signature under pk (in
\* lowercase or in uppercase) but for one character
OneCharacterAltered ==
    /\ n_read = 129 /\ response_hex[129] = LF
    /\ Len(verified) = 1
    /\ \E u \in BOOLEAN :
         Cardinality(Differs(Framed(ChallengeMessage, verified[1].pk, u))) = 1

\* ... and the character put in its place denotes another nibble
OneNibbleAltered ==
    /\ n_read = 129 /\ response_hex[129] = LF
    /\ Len(verified) = 1
    /\ \E u \in BOOLEAN :
         LET v == Framed(ChallengeMessage, verified[1].pk, u)
         IN  /\ Cardinality(Differs(v)) = 1
             /\ \A i \in Differs(v) :
                    NibbleOf(response_hex[i]) # HexValue(v[i])

DeniedWithStatusOne ==
    /\ ~ SessionGranted
    /\ pc \in { "denied", "not_ok", "exited" }
    /\ pc = "denied" => ENABLED Denied
    /\ pc = "not_ok" => SessionDenied /\ ENABLED ExitDenied
    /\ Exited => SessionDenied /\ exit_code = 1

\* C4 as claimed: a valid well-framed response with any one of its 128
\* characters altered to a different character is denied with status 1.
C4_AnyAlterationDenied == OneCharacterAltered => DeniedWithStatusOne

\* C4, amended: a valid well-framed response with one of its 128 characters
\* altered to a character that decodes to a different nibble is denied with
\* status 1.
C4_NibbleAlterationDenied == OneNibbleAltered => DeniedWithStatusOne

C4_Witness == OneNibbleAltered /\ Exited /\ SessionDenied /\ exit_code = 1

---------------------------------------------------------------------------
(* The properties of the codec, under SpecCodec.                            *)

Decoded == c_pc = "done"

\* the two characters of the k-th pair of the text
Hi(k) == c_hex[2 * k - 1]

Lo(k) == c_hex[2 * k]

Pairs == 1 .. (Len(c_hex) \div 2)

\* unhexpcpy signalled nothing: every byte of the output is written, and the
\* pointer returned is the end of the output
DecodedAll ==
    /\ Len(c_out) = Len(c_hex) \div 2
    /\ c_out_end = Len(c_out)
    /\ \A k \in Pairs : c_out[k] \in Byte

\* C5 as claimed: unhexpcpy signals no error, and every character outside
\* 0-9, a-f, A-F decodes to nibble 0.
C5_NonHexDecodesToZero ==
    Decoded =>
        /\ DecodedAll
        /\ \A k \in Pairs :
            /\ ~ IsHexChar(Hi(k)) => c_out[k] \div 16 = 0
            /\ ~ IsHexChar(Lo(k)) => c_out[k] % 16 = 0

\* C5, amended: unhexpcpy signals no error on any input; a character outside
\* 0-9, a-f, A-F decodes to nibble 0 when its low five bits are those of no
\* hexadecimal digit, and otherwise to the value of the digit that has its
\* low five bits.
C5_NonHexDecodesByLowFiveBits ==
    /\ c_pc = "text" => ENABLED Decode
    /\ Decoded =>
        /\ DecodedAll
        /\ \A k \in Pairs :
            /\ ~ IsHexChar(Hi(k)) =>
                   c_out[k] \div 16 =
                       IF NoDigitClass(Hi(k)) THEN 0 ELSE NibbleOf(Hi(k))
            /\ ~ IsHexChar(Lo(k)) =>
                   c_out[k] % 16 =
                       IF NoDigitClass(Lo(k)) THEN 0 ELSE NibbleOf(Lo(k))

\* "zz" decodes to 00
C5_Witness ==
    /\ Decoded /\ c_from = "text"
    /\ c_hex = << 122, 122 >>
    /\ c_out = << 0 >>

\* C6: unhexpcpy of the output of hexpcpy_lower(b) is b, for every byte
\* sequence b.
C6_RoundTrip ==
    (Decoded /\ c_from = "bytes") =>
        /\ c_out = c_in
        /\ c_out_end = Len(c_in)

C6_Witness ==
    /\ Decoded /\ c_from = "bytes"
    /\ Len(c_in) = 2 /\ c_in[1] = 255 /\ c_in[2] = 84
    /\ c_out = c_in

\* C7: a pair of hexadecimal characters decodes to the byte it denotes, high
\* nibble from the first character and low nibble from the second, and to
\* the same byte with the case of any letter changed.
C7_CaseInsensitive ==
    Decoded =>
        \A k \in Pairs :
            (IsHexChar(Hi(k)) /\ IsHexChar(Lo(k))) =>
                /\ c_out[k] = 16 * HexValue(Hi(k)) + HexValue(Lo(k))
                /\ unhex_byte(ToggleCase(Hi(k)), Lo(k)) = c_out[k]
                /\ unhex_byte(Hi(k), ToggleCase(Lo(k))) = c_out[k]
                /\ unhex_byte(ToggleCase(Hi(k)), ToggleCase(Lo(k))) = c_out[k]

\* "3F" decodes to 3f
C7_Witness ==
    /\ Decoded /\ c_from = "text"
    /\ c_hex = << 51, 70 >>
    /\ c_out = << 63 >>

\* C8: hexpcpy_lower is total; it writes for each byte two characters of
\* 0-9a-f, high nibble first, 2n characters in all, and returns out + 2n.
C8_EncodeLower ==
    /\ c_pc = "bytes" => ENABLED Encode
    /\ (c_from = "bytes" /\ c_pc \in { "text", "done" }) =>
        /\ Len(c_hex) = 2 * Len(c_in)
        /\ c_hex_end = 2 * Len(c_in)
        /\ \A i \in 1 .. Len(c_in) :
            /\ c_hex[2 * i - 1] = PeerDigit(c_in[i] \div 16, FALSE)
            /\ c_hex[2 * i] = PeerDigit(c_in[i] % 16, FALSE)
        /\ \A j \in 1 .. Len(c_hex) :
               c_hex[j] \in (48 .. 57) \cup (97 .. 102)

\* ab 00 encodes to "ab00"
C8_Witness ==
    /\ c_from = "bytes" /\ c_pc = "text"
    /\ c_in = << 171, 0 >>
    /\ c_hex = << 97, 98, 48, 48 >>
    /\ c_hex_end = 4

---------------------------------------------------------------------------
(* The properties of the program, continued.                                *)

\* the errno written to stderr by error()
ReportedErrno == IF Len(stderr) = 3 THEN stderr[2] ELSE "none"

\* C9: the exit status is 1 exactly when the session ended in DENIED, 127
\* when the exec failed with ENOENT, 126 when it failed otherwise, and 125
\* for every other termination; it is 126 or 127 only after a failed exec.
C9_ExitStatusByCause ==
    /\ Exited =>
        /\ exit_code \in { 1, 125, 126, 127 }
        /\ (exit_code = 1) <=> SessionDenied
        /\ (ExecCalled /\ ReportedErrno = "ENOENT") => exit_code = 127
        /\ (ExecCalled /\ ReportedErrno # "ENOENT") => exit_code = 126
        /\ (~ ExecCalled /\ ~ SessionDenied) => exit_code = 125
    /\ ~ Exited => exit_code = Running
    /\ (exit_status \in { 126, 127 } \/ exit_code \in { 126, 127 }) =>
           (ExecCalled /\ Exited)
    /\ exit_status \in { 125, 126, 127 }

C9_Witness ==
    /\ Exited /\ ExecCalled
    /\ ReportedErrno = "ENOENT"
    /\ exit_code = 127

\* C10: with an argument present the process terminates at once: no file is
\* opened, nothing is written to stdout, stdin is not read and no identity
\* change is attempted.
C10_ArgumentIsFatalAtOnce ==
    argc > 1 =>
        /\ pc \in { "main", "exited" }
        /\ pc = "main" => ENABLED CheckArgs
        /\ syscalls = << >>
        /\ fds = {}
        /\ stdout = << >>
        /\ n_read = Indet
        /\ Exited =>
            /\ exit_code = 125
            /\ stderr = << "su: no arguments are allowed\n" >>

C10_Witness == argc = 2 /\ Exited /\ exit_code = 125

\* the last call made
LastCall == IF syscalls = << >> THEN "none" ELSE syscalls[Len(syscalls)]

\* the label of the challenge occurs in what was written to stdout
LabelPrinted ==
    \E i \in 1 .. Len(stdout) :
        i + Len(S_Challenge) - 1 <= Len(stdout)
            /\ SubSeq(stdout, i, i + Len(S_Challenge) - 1) = S_Challenge

\* the random source could not be opened, could not be read, or gave fewer
\* than 28 bytes
RandomSourceFailed ==
    \/ Exited /\ LastCall = "open " \o RANDOM_PATH
    \/ Exited /\ LastCall = "read " \o RANDOM_PATH
    \/ Called("read " \o RANDOM_PATH) /\ challenge[challenge_size] = Indet

\* C11: if the random source cannot be opened, cannot be read, or yields
\* fewer than 28 bytes, the process exits with status 125; no challenge is
\* ever printed, stdin is never read, and neither ACCESS GRANTED nor ACCESS
\* DENIED is printed.
C11_RandomFailureIsFatal ==
    RandomSourceFailed =>
        /\ Exited
        /\ exit_code = 125
        /\ stdout = S_Standby \o S_Newline
        /\ ~ LabelPrinted
        /\ challenge_hex = Fresh(challenge_hex_size)
        /\ ~ StdinRead
        /\ n_read = Indet
        /\ ~ SessionGranted /\ ~ SessionDenied

\* 27 of the 28 bytes were delivered
C11_Witness ==
    /\ Exited /\ exit_code = 125
    /\ LastCall = "read " \o RANDOM_PATH
    /\ challenge[challenge_size - 1] \in Byte
    /\ challenge[challenge_size] = Indet
    /\ stderr = << "su: insufficient data from /dev/urandom\n" >>

\* the primitive was invoked and rejected the signature
Rejected == verified # << >> /\ verified[Len(verified)].nok # 0

\* the response read succeeded, and the framing check or the verification
\* failed
ResponseRefused == n_read >= 0 /\ (Malformed \/ Rejected)

\* C12: ACCESS DENIED and exit status 1 are produced exactly when the read
\* of the response succeeded and either the framing check failed or the
\* primitive rejected the signature; no failure of the environment produces
\* a denial, and no framing or verification failure produces a fatal status.
C12_DeniedExactlyOnRefusal ==
    /\ SessionDenied => ResponseRefused
    /\ exit_code = 1 => (SessionDenied /\ ResponseRefused)
    /\ Exited => (ResponseRefused <=> SessionDenied)
    /\ ResponseRefused =>
        /\ stderr = << >>
        /\ exit_code \in { Running, 1 }
        /\ pc \in { "frame", "denied", "not_ok", "exited" }
        /\ pc = "frame" => ENABLED CheckFrame
        /\ pc = "denied" => ENABLED Denied
        /\ pc = "not_ok" => ENABLED ExitDenied
    /\ stderr # << >> =>
        /\ ~ SessionDenied
        /\ Exited /\ exit_code \in { 125, 126, 127 }

\* a well-framed response that the primitive rejected
C12_Witness ==
    /\ Exited /\ exit_code = 1 /\ SessionDenied
    /\ n_read = 129 /\ Rejected

\* how many times a call was made
Count(name) == Cardinality({ i \in 1 .. Len(syscalls) : syscalls[i] = name })

\* how many times the label of the challenge was written
LabelCount ==
    Cardinality({ i \in 1 .. Len(stdout) :
        i + Len(S_Challenge) - 1 <= Len(stdout)
            /\ SubSeq(stdout, i, i + Len(S_Challenge) - 1) = S_Challenge })

\* the state of the session, as the outputs and the response read show it
SessionState ==
    IF SessionGranted THEN "GRANTED"
    ELSE IF SessionDenied THEN "DENIED"
    ELSE IF n_read >= 0 THEN "RESPONSE_RECEIVED"
    ELSE IF LabelPrinted THEN "CHALLENGE_ISSUED"
    ELSE IF stdout # << >> THEN "START"
    ELSE "NONE"

StateRank(st) ==
    CASE st = "NONE" -> 0
      [] st = "START" -> 1
      [] st = "CHALLENGE_ISSUED" -> 2
      [] st = "RESPONSE_RECEIVED" -> 3
      [] st \in { "GRANTED", "DENIED" } -> 4

\* one challenge, one read of stdin after the message was written, one
\* verification
SingleShot ==
    /\ Count("time") <= 1
    /\ Count("open " \o RANDOM_PATH) <= 1
    /\ Count("read " \o RANDOM_PATH) <= 1
    /\ LabelCount <= 1
    /\ Count("read stdin") <= 1
    /\ StdinRead =>
        /\ LabelCount = 1
        /\ stdout = S_Standby \o S_Newline \o S_Challenge \o ChallengeMessage
            \/ SessionGranted \/ SessionDenied
        /\ PrintedMessage = ChallengeMessage
    /\ (LabelPrinted /\ pc # "read") => Count("read stdin") = 1
    /\ n_read \in { Indet, 0 - 1 } \cup (0 .. response_hex_size)
    /\ Len(verified) <= 1
    /\ (n_read >= 0 /\ n_read # 129) =>
        /\ Count("read stdin") = 1
        /\ pc \in { "frame", "denied", "not_ok", "exited" }

\* a step keeps the state of the session or moves it to the next one, and
\* leaves GRANTED and DENIED as they are
ForwardStep ==
    /\ StateRank(SessionState') - StateRank(SessionState) \in { 0, 1 }
    /\ SessionState \in { "GRANTED", "DENIED" } => SessionState' = SessionState
    /\ Count("read stdin")' >= Count("read stdin")

\* C13: the session moves only forward through START, CHALLENGE_ISSUED,
\* RESPONSE_RECEIVED and then GRANTED or DENIED; at most one challenge is
\* generated and printed, one read of stdin of at most 256 bytes is issued
\* and only after the ChallengeMessage was written, at most one verification
\* is performed, and a response of another length than 129 is not read again.
C13_ForwardSingleShot == [] SingleShot /\ [][ForwardStep]_vars

\* a short response was read once and the session was denied
C13_Witness ==
    /\ SessionState = "DENIED" /\ Exited
    /\ n_read = 128
    /\ Count("read stdin") = 1
    /\ LabelCount = 1

\* the place of a call in the trace; 0 if it was not made
Position(name) ==
    IF Called(name)
    THEN CHOOSE i \in 1 .. Len(syscalls) : syscalls[i] = name
    ELSE 0

\* what error() reported as having failed
Reported(msg) == stderr # << >> /\ stderr[1] = msg

\* C14: setgid( 0 ) is called first, then setuid( 0 ), and only then the
\* exec of the shell; if setgid fails, setuid and exec are never called; if
\* setuid fails, exec is never called; the process ends with status 125 in
\* both cases.
C14_GidThenUidThenExec ==
    /\ Count("setgid 0") <= 1
    /\ Count("setuid 0") <= 1
    /\ Count("execlp " \o SHELL_PATH) <= 1
    /\ (SetuidCalled \/ pc = "setuid") =>
           (SetgidCalled /\ ~ Reported("su: setgid: "))
    /\ SetuidCalled => Position("setgid 0") < Position("setuid 0")
    /\ (ExecCalled \/ pc \in { "exec", "shell" }) =>
           (SetuidCalled /\ ~ Reported("su: setuid: "))
    /\ ExecCalled => Position("setuid 0") < Position("execlp " \o SHELL_PATH)
    /\ Reported("su: setgid: ") =>
        /\ Exited /\ exit_code = 125
        /\ LastCall = "setgid 0"
        /\ ~ SetuidCalled /\ ~ ExecCalled
    /\ Reported("su: setuid: ") =>
        /\ Exited /\ exit_code = 125
        /\ LastCall = "setuid 0"
        /\ ~ ExecCalled

\* setuid failed after setgid succeeded
C14_Witness ==
    /\ Exited /\ exit_code = 125
    /\ Reported("su: setuid: ")
    /\ Position("setgid 0") > 0
    /\ Position("setuid 0") = Position("setgid 0") + 1
    /\ ~ ExecCalled

\* the response that was read is well-framed
WellFramed == n_read = 129 /\ response_hex[129] = LF

\* the key file could not be opened, could not be read, or gave fewer than
\* 32 bytes
KeyFileFailed ==
    \/ Exited /\ LastCall = "open " \o PUBLIC_KEY_PATH
    \/ Exited /\ LastCall = "read " \o PUBLIC_KEY_PATH
    \/ Called("read " \o PUBLIC_KEY_PATH)
           /\ public_key[public_key_size] = Indet

\* C15: the key file is opened only after the framing check passed; if it
\* cannot be opened, cannot be read, or yields fewer than 32 bytes, the
\* process exits with status 125 without invoking the primitive and without
\* printing ACCESS GRANTED or ACCESS DENIED.
C15_KeyFailureIsFatal ==
    /\ (KeyOpened \/ pc \in { "open_key", "read_key", "close_key" }) =>
        /\ WellFramed
        /\ Position("read stdin") > 0
        /\ KeyOpened =>
               Position("read stdin") < Position("open " \o PUBLIC_KEY_PATH)
    /\ KeyFileFailed =>
        /\ WellFramed
        /\ Exited
        /\ exit_code = 125
        /\ verified = << >>
        /\ ~ SessionGranted /\ ~ SessionDenied
        /\ ~ SetgidCalled /\ ~ SetuidCalled /\ ~ ExecCalled

\* 31 of the 32 bytes of the key were delivered
C15_Witness ==
    /\ Exited /\ exit_code = 125
    /\ WellFramed
    /\ public_key[public_key_size - 1] \in Byte
    /\ public_key[public_key_size] = Indet
    /\ stderr = << "su: insufficient data from /etc/su/public_key\n" >>

\* make_challenge returned
ChallengeMade == Called("close " \o RANDOM_PATH)

\* the four base-256 digits, least significant first, of the 32-bit word
\* that four bytes hold on this build
WordDigits(b) ==
    IF abi.big_endian THEN << b[4], b[3], b[2], b[1] >> ELSE b

\* the Challenge is 32 bytes: the time modulo 2^32 and then the 28 bytes of
\* one read of the random source
ChallengeLayout ==
    /\ Len(challenge) = 32
    /\ Called("time") =>
        /\ Len(time_ret) = 8
        /\ WordDigits(SubSeq(challenge, 1, 4)) = SubSeq(time_ret, 1, 4)
    /\ ChallengeMade =>
        /\ \A i \in 1 .. 32 : challenge[i] \in Byte
        /\ Count("time") = 1
        /\ Count("read " \o RANDOM_PATH) = 1
        /\ Len(random_ret) = 28
        /\ SubSeq(challenge, 5, 32) = random_ret

\* a step leaves alone what of the Challenge was written
WrittenOnce ==
    /\ Called("time") =>
           SubSeq(challenge', 1, 4) = SubSeq(challenge, 1, 4)
    /\ Called("read " \o RANDOM_PATH) => challenge' = challenge

\* C16: the Challenge is exactly 32 bytes; bytes 0..3 hold the time
\* truncated to 32 bits, bytes 4..31 the 28 bytes delivered by the one read
\* of the random source; it is written once and not modified afterwards.
C16_ChallengeLayout == [] ChallengeLayout /\ [][WrittenOnce]_vars

C16_Witness ==
    /\ ChallengeMade /\ pc = "shell"
    /\ abi.big_endian
    /\ time_ret = Time(2)
    /\ random_ret = Random(1)
    /\ challenge = << Time(2)[4], Time(2)[3], Time(2)[2], Time(2)[1] >>
                       \o Random(1)

\* a step of the session was taken
SessionStarted ==
    \/ stdout # << >>
    \/ Called("sleep") \/ Called("time")
    \/ RandomOpened \/ StdinRead \/ KeyOpened
    \/ n_read # Indet \/ verified # << >>

\* no argument, effective uid 0, real uid other than 0
SessionDue == argc <= 1 /\ euid = 0 /\ uid # 0

\* C17: a session runs exactly when no argument is present, the effective
\* uid is 0 and the real uid is not 0; with real uid 0 the process goes
\* straight to the privilege transition, with no standby notice, challenge,
\* read of stdin or opening of the random source or key file; with an
\* effective uid other than 0 it terminates fatally before any session step.
C17_SessionExactlyForNonRoot ==
    /\ SessionStarted => SessionDue
    /\ SessionDue =>
        \/ pc = "main" /\ ENABLED CheckArgs
        \/ pc = "geteuid" /\ ENABLED CheckEuid
        \/ pc = "getuid" /\ ENABLED CheckUid
        \/ pc = "standby" /\ ENABLED Standby
        \/ SessionStarted
    /\ (argc <= 1 /\ euid = 0 /\ uid = 0) =>
        /\ ~ SessionStarted
        /\ fds = {}
        /\ pc \in { "main", "geteuid", "getuid", "setgid", "setuid", "exec",
                     "shell", "exited" }
        /\ Called("getuid") => (SetgidCalled \/ (pc = "setgid" /\ ENABLED SetGid))
        /\ Exited => SetgidCalled
    /\ euid # 0 =>
        /\ ~ SessionStarted
        /\ ~ SetgidCalled /\ ~ SetuidCalled /\ ~ ExecCalled
        /\ pc \in { "main", "geteuid", "exited" }
        /\ Exited =>
            /\ exit_code = 125
            /\ argc <= 1 =>
                   stderr = << "su: not running as root (is it setuid?)\n" >>

\* real uid 0: the shell without a session
C17_Witness ==
    /\ uid = 0 /\ euid = 0 /\ argc = 1
    /\ pc = "shell"
    /\ stdout = << >>
    /\ syscalls = << "geteuid", "getuid", "setgid 0", "setuid 0",
                     "execlp /system/bin/sh" >>

\* the process is in the read of stdin, which has not returned
Blocked == pc = "read"

\* the process is over: it exited, or it became the shell
Terminal == pc \in { "exited", "shell" }

\* while the read has not returned the session is in CHALLENGE_ISSUED and
\* the process can take no step by itself
WaitsForPeer ==
    Blocked =>
        /\ SessionState = "CHALLENGE_ISSUED"
        /\ n_read = Indet
        /\ ~ StdinRead
        /\ ~ ENABLED ProgramStep
        /\ ENABLED ReadResponse

\* the wait ends only by the return of the read
LeavesByReturn ==
    (Blocked /\ ~ Blocked') => (StdinRead' /\ n_read' # Indet)

\* C18: no timeout governs the read of the response: while it has not
\* returned the session stays in CHALLENGE_ISSUED and is not denied; once it
\* has returned (data, end of input or error) the process reaches a terminal
\* outcome.
C18_NoTimeoutThenTerminates ==
    /\ [] WaitsForPeer
    /\ [][LeavesByReturn]_vars
    /\ (StdinRead ~> Terminal)

\* end of input: the read returned 0 bytes and the session was denied
C18_Witness ==
    /\ Terminal /\ StdinRead
    /\ n_read = 0
    /\ SessionDenied /\ exit_code = 1

\* C19: the descriptor of the random source and that of the key file are
\* each opened at most once and closed before the next step: the first is
\* closed before the ChallengeMessage is printed, the second before the
\* primitive is invoked; they are never open together, and neither is open
\* when the exec is attempted.
C19_DescriptorsClosedInTime ==
    /\ Count("open " \o RANDOM_PATH) <= 1
    /\ Count("open " \o PUBLIC_KEY_PATH) <= 1
    /\ fds \subseteq { RANDOM_PATH, PUBLIC_KEY_PATH }
    /\ Cardinality(fds) <= 1
    /\ RANDOM_PATH \in fds =>
        /\ pc \in { "read_random", "close_random", "exited" }
        /\ ~ LabelPrinted
    /\ PUBLIC_KEY_PATH \in fds =>
        /\ pc \in { "read_key", "close_key", "exited" }
        /\ verified = << >>
    /\ (LabelPrinted \/ pc \in { "hex", "print" }) =>
        /\ RANDOM_PATH \notin fds
        /\ Count("close " \o RANDOM_PATH) = 1
        /\ Position("close " \o RANDOM_PATH)
               = Position("read " \o RANDOM_PATH) + 1
    /\ (verified # << >> \/ pc = "verify") =>
        /\ PUBLIC_KEY_PATH \notin fds
        /\ Count("close " \o PUBLIC_KEY_PATH) = 1
        /\ Position("close " \o PUBLIC_KEY_PATH)
               = Position("read " \o PUBLIC_KEY_PATH) + 1
    /\ (SetgidCalled \/ SetuidCalled \/ ExecCalled
            \/ pc \in { "setgid", "setuid", "exec", "shell" }) => fds = {}

\* a granted session at the shell: both files were opened and closed
C19_Witness ==
    /\ pc = "shell" /\ SessionGranted
    /\ fds = {}
    /\ Position("open " \o RANDOM_PATH) < Position("close " \o RANDOM_PATH)
    /\ Position("close " \o RANDOM_PATH) < Position("open " \o PUBLIC_KEY_PATH)
    /\ Position("open " \o PUBLIC_KEY_PATH)
           < Position("close " \o PUBLIC_KEY_PATH)

\* the C indices of a buffer of n elements
Indices(n) == 0 .. (n - 1)

\* C20: every buffer access is in bounds: hexpcpy_lower writes exactly the
\* indices 0..63 of the 65-byte challenge_hex and the LF goes to index 64;
\* the read of the response stores at most 256 bytes into the 256-byte
\* response_hex; unhexpcpy reads exactly response_hex[0..127] and writes
\* exactly response[0..63]; the index into the decoding table is in 0..31
\* for every character, the negative ones included.
C20_AccessesInBounds ==
    /\ Len(challenge) = 32
    /\ Len(challenge_hex) = 65
    /\ Len(response_hex) = 256
    /\ Len(response) = 64
    /\ Len(decoded_hex_table) = 32
    /\ touched.challenge_r \subseteq Indices(Len(challenge))
    /\ touched.hex_w \cup touched.lf_w \subseteq Indices(Len(challenge_hex))
    /\ touched.read_w \cup touched.frame_r \cup touched.unhex_r
           \subseteq Indices(Len(response_hex))
    /\ touched.response_w \subseteq Indices(Len(response))
    /\ touched.table_r \subseteq Indices(Len(decoded_hex_table))
    /\ pc \in { "print", "read" } =>
        /\ touched.challenge_r = 0 .. 31
        /\ touched.hex_w = 0 .. 63
        /\ touched.lf_w = { 64 }
        /\ challenge_hex[64 + 1] = LF
        /\ \A i \in 1 .. 65 : challenge_hex[i] \in Byte
    /\ (touched.hex_w = {}) <=>
           (pc \in { "main", "geteuid", "getuid", "standby", "time",
                     "open_random", "read_random", "close_random", "hex" }
               \/ ~ ChallengeMade)
    /\ n_read >= 0 =>
        /\ n_read <= 256
        /\ touched.read_w = 0 .. (n_read - 1)
    /\ touched.frame_r \subseteq touched.read_w
    /\ pc \in { "open_key", "read_key", "close_key", "verify" } =>
        /\ touched.unhex_r = 0 .. 127
        /\ touched.unhex_r \subseteq touched.read_w
        /\ touched.response_w = 0 .. 63
        /\ touched.table_r # {}
        /\ \A i \in 1 .. 64 : response[i] \in Byte
    /\ (touched.response_w = {}) <=> (response = Fresh(response_size))

\* a response with a negative character, on a build where char is signed:
\* 0xff is -1 and indexes the table at 31
C20_Witness ==
    /\ pc = "verify"
    /\ abi.char_signed
    /\ \E i \in 1 .. 128 : response_hex[i] = 255
    /\ 31 \in touched.table_r
    /\ touched.response_w = 0 .. 63

===========================================================================
